---- MODULE Spec2Model ----
(***************************************************************************)
(* SafePhone London: the geofence check and the report modal of            *)
(* src/src/App.tsx, the crime feed of src/src/lib/policeApi.ts and         *)
(* src/src/app/page.tsx, and the police markers of                         *)
(* src/src/components/Map.tsx.                                             *)
(*                                                                         *)
(* Coordinates are integers in units of 1e-4 degree (the zone centres of   *)
(* GEOFENCE_ZONES have four decimals, so they are exact). Distances are    *)
(* integers in decimetres. A JavaScript NaN distance is the value NaN.     *)
(***************************************************************************)
EXTENDS Integers, Sequences, FiniteSets, TLC

VARIABLES
    \* ---- App.tsx component state
    locationPermission,  \* useState 'prompt' | 'granted' | 'denied'   (App.tsx:64)
    initialPending,      \* the one-shot getCurrentPosition has not answered yet
    userLocation,        \* useState [lon, lat] | null; <<>> is null    (App.tsx:65)
    showAlert,           \* useState boolean                            (App.tsx:67)
    alertZone,           \* useState string                             (App.tsx:68)
    currentZone,         \* useState string | null                      (App.tsx:73)
    alertedZones,        \* useRef Set<string>                          (App.tsx:74)
    zones,               \* the array GEOFENCE_ZONES of the module      (App.tsx:28)
    watchId,             \* useRef number | null, as a string           (App.tsx:62)
    map,                 \* useRef mapboxgl.Map | null, as a string     (App.tsx:60)
    loading,             \* useState boolean                            (App.tsx:66)
    crimeCount,          \* useState number                             (App.tsx:72)
    showReportModal,     \* useState boolean                            (App.tsx:69)
    reportText,          \* useState string                             (App.tsx:70)
    submitting,          \* useState boolean                            (App.tsx:71)
    pendingReport,       \* <<the document of an addDoc not settled yet>>, or <<>>
    lastReport,          \* <<the document of the last addDoc that resolved>>, or <<>>
    \* ---- observation of the last checkGeofences call (history, not program state)
    lastOp,              \* which handler ran last
    lastSample,          \* <<the sample of the last position callback>>, or <<>>
    prevSample,          \* <<the sample of the position callback before it>>, or <<>>
    prevZone,            \* currentZone before the last position callback
    prevAlerted,         \* alertedZones before the last position callback
    enteredBefore,       \* the zones that held a sample delivered before the last one
    lastEvents,          \* entered-zone alerts raised by the last position callback
    alerts,              \* every entered-zone alert raised in the session, in order
    \* ---- page.tsx component state
    policeCrimes,        \* useState CrimeData[]                        (page.tsx:208)
    policeStats,         \* useState PoliceStats                        (page.tsx:212)
    crimeDataLoading,    \* useState boolean                            (page.tsx:213)
    crimeDataError,      \* useState string | null                      (page.tsx:214)
    incidents,           \* useState Incident[]                         (page.tsx:207)
    stats,               \* useState {total, theft, suspicious, safe}   (page.tsx:211)
    loadPc,              \* where the effect of page.tsx:218-250 stands
    showForm,            \* useState boolean                            (page.tsx:209)
    selectedLocation,    \* useState {lat, lng} | null, as <<>> or <<it>> (page.tsx:210)
    \* ---- IncidentForm.tsx component state, of the form instance on screen
    type,                \* useState string                      (IncidentForm.tsx:13)
    description,         \* useState string                      (IncidentForm.tsx:14)
    isSubmitting,        \* useState boolean                     (IncidentForm.tsx:15)
    formKey,             \* the number of IncidentForm instances mounted so far
    pendingIncidents,    \* the addDoc calls of page.tsx:297 not settled yet
    lastIncident,        \* <<the document of the last addDoc that resolved>>, or <<>>
    formOp,              \* which handler of the form ran last
    \* ---- Map.tsx component state
    showPoliceData,      \* useState boolean                            (Map.tsx:28)
    policeMarkers,       \* useRef mapboxgl.Marker[]                    (Map.tsx:26)
    \* ---- the environment of the feed, and its observation
    rawData,             \* the records the Police API answers with in this session
    areaCrimes,          \* <<the list fetchCrimeDataForArea returned>>, or <<>> before a call
    theftCrimes,         \* <<whether the fetch was ok, the list fetchPoliceData returned>>, or <<>>
    snapshotDocs         \* the documents of the last Firestore snapshot

\* the report modal of App.tsx and the reports collection
reportVars == <<showReportModal, reportText, submitting, pendingReport, lastReport>>

\* the map of App.tsx and what its load handler sets
mapLoadVars == <<map, loading, crimeCount>>

geoVars == <<locationPermission, initialPending, watchId, userLocation, showAlert, alertZone,
             currentZone, alertedZones, lastOp, lastSample, prevSample, prevZone,
             prevAlerted, enteredBefore, lastEvents, alerts, reportVars, mapLoadVars,
             zones>>

\* the police markers of Map.tsx
markerVars == <<showPoliceData, policeMarkers>>

\* the incident form of page.tsx and IncidentForm.tsx, and the incidents collection
formVars == <<showForm, selectedLocation, type, description, isSubmitting, formKey,
              pendingIncidents, lastIncident, formOp>>

feedVars == <<policeCrimes, policeStats, crimeDataLoading, crimeDataError, incidents,
              stats, loadPc, rawData, areaCrimes, snapshotDocs, theftCrimes, markerVars,
              formVars>>

vars == <<geoVars, feedVars>>

\* JavaScript null, and the zone name '' that checkGeofences starts from
null == "null"
\* JavaScript NaN: a number outside every coordinate and distance of the model
NaN == -1000000000

(***************************************************************************)
(* Bounds of the model                                                     *)
(***************************************************************************)
\* how many of the SamplePoints the location callbacks may deliver
MaxSample == 9
\* the most records in one Police API response
MaxBatch == 3
\* the most documents in one Firestore snapshot
MaxDocs == 1
\* how many of the SamplePoints the location callbacks deliver in AppSpec
MaxAppSample == 2
\* how many times the incident form may be opened in a session
MaxForms == 2

(***************************************************************************)
(* App.tsx: the zone list                                                  *)
(***************************************************************************)
\* center is [lon, lat] as in the source: center[1] is the longitude here
\* (center[0] there), center[2] the latitude (center[1] there)
GEOFENCE_ZONES ==
    << [name |-> "Westminster",          center |-> <<-1357, 514975>>, radius |-> 1000],
       [name |-> "Camden Town",          center |-> <<-1426, 515394>>, radius |-> 800],
       [name |-> "Shoreditch",           center |-> <<-777,  515267>>, radius |-> 700],
       [name |-> "Oxford Street",        center |-> <<-1413, 515152>>, radius |-> 600],
       [name |-> "King's Cross",         center |-> <<-1246, 515308>>, radius |-> 750],
       [name |-> "Brixton",              center |-> <<-1146, 514613>>, radius |-> 800],
       [name |-> "Stratford",            center |-> <<-23,   515415>>, radius |-> 900],
       [name |-> "Elephant & Castle",    center |-> <<-988,  514943>>, radius |-> 700],
       [name |-> "Tottenham Court Road", center |-> <<-1307, 515165>>, radius |-> 500],
       [name |-> "Liverpool Street",     center |-> <<-822,  515178>>, radius |-> 600] >>

ZoneNames == {GEOFENCE_ZONES[i].name : i \in 1..Len(GEOFENCE_ZONES)}

(***************************************************************************)
(* App.tsx: getDistance, the haversine distance, in integer arithmetic     *)
(***************************************************************************)
\* Earth's radius in metres
R == 6371000

Abs(x) == IF x < 0 THEN -x ELSE x

\* a difference of angles brought into [-180, 180) degrees: sin^2(d/2) and cos
\* have period 360 degrees, so the haversine term a does not see the turns
WrapDegrees(d) == ((d + 1800000) % 3600000) - 1800000

\* the least n with n * n >= x, by bisection on lo < n <= hi
RECURSIVE CeilSqrtIn(_, _, _)
CeilSqrtIn(x, lo, hi) ==
    IF hi - lo <= 1 THEN hi
    ELSE LET mid == (lo + hi) \div 2
         IN IF mid * mid >= x THEN CeilSqrtIn(x, lo, mid) ELSE CeilSqrtIn(x, mid, hi)

CeilSqrt(x) == IF x = 0 THEN 0 ELSE CeilSqrtIn(x, 0, 46340)

\* metres per degree of a great circle: R * PI / 180
MetresPerDegree == ((R \div 1000) * 174533) \div 10000

\* the distance returned for two points more than 250 units (2.7 km) apart in
\* latitude, or in longitude at the latitudes of London: farther than any radius
FarDistance == 10 * MetresPerDegree

\* cos of the mean latitude, times 1e6, from twice the mean latitude (in 1e-4
\* degree): cos(51.5 deg) - sin(51.5 deg) * delta, exact to 1e-6 within 0.1 degree
\* cos has period 360 degrees: the mean is brought within half a turn of 51.5
CosMean(latSum) ==
    LET d == ((latSum - 1030000 + 3600000) % 7200000) - 3600000
    IN 622515 - ((d \div 1000) * 683 + ((d % 1000) * 683) \div 1000)

\* the latitude of the second point taken for the difference of the latitudes
getDistance_NoDifference(lat1, lon1, lat2, lon2) ==
    IF lat1 = NaN \/ lon1 = NaN \/ lat2 = NaN \/ lon2 = NaN THEN NaN
    ELSE LET dPhi    == WrapDegrees(lat2)
             dLambda == WrapDegrees(lon2 - lon1)
         IN IF Abs(dPhi) > 250 \/ Abs(dLambda) > 250 THEN FarDistance
            ELSE LET c == CosMean(2 * lat2 - dPhi)
                     k == c * (MetresPerDegree \div 10000)
                          + (c * (MetresPerDegree % 10000)) \div 10000
                     x == (Abs(dLambda) * k) \div 100000
                     y == (Abs(dPhi) * MetresPerDegree) \div 1000
                 IN CeilSqrt(x * x + y * y)

\* App.tsx:77-89. For points within a few km, a = sin^2(dPhi/2) + cos(phi1) *
\* cos(phi2) * sin^2(dLambda/2) is (dPhi^2 + cos^2(phiMean) * dLambda^2) / 4 and
\* 2 * atan2(sqrt(a), sqrt(1 - a)) is 2 * sqrt(a), both to 1e-7: the result, in
\* decimetres rounded up, is within 0.15 m of the source's on every point within
\* 250 units of a zone centre. A NaN argument gives NaN, as in the source.
getDistance(lat1, lon1, lat2, lon2) ==
    IF lat1 = NaN \/ lon1 = NaN \/ lat2 = NaN \/ lon2 = NaN THEN NaN
    ELSE LET dPhi    == WrapDegrees(lat2 - lat1)
             dLambda == WrapDegrees(lon2 - lon1)
         IN IF Abs(dPhi) > 250 \/ Abs(dLambda) > 250 THEN FarDistance
            ELSE LET c == CosMean(2 * lat2 - dPhi)
                     k == c * (MetresPerDegree \div 10000)
                          + (c * (MetresPerDegree % 10000)) \div 10000
                     x == (Abs(dLambda) * k) \div 100000
                     y == (Abs(dPhi) * MetresPerDegree) \div 1000
                 IN CeilSqrt(x * x + y * y)

(***************************************************************************)
(* The position samples the Geolocation API may deliver                    *)
(***************************************************************************)
\* position.coords of a callback. The first MaxSample points are delivered.
SamplePoints ==
    << [latitude |-> 514975,  longitude |-> -1357],   \* the centre of Westminster
       [latitude |-> 515074,  longitude |-> -1276],   \* LONDON_CENTER: in no zone
       [latitude |-> 515158,  longitude |-> -1350],   \* in Oxford Street and in Tottenham Court Road
       [latitude |-> 515165,  longitude |-> -1307],   \* the centre of Tottenham Court Road
       [latitude |-> 515152,  longitude |-> -1413],   \* the centre of Oxford Street
       [latitude |-> NaN,     longitude |-> NaN],     \* not finite
       [latitude |-> 910000,  longitude |-> -1357],   \* latitude 91: out of range
       [latitude |-> 4114975, longitude |-> -1357],   \* latitude 411.4975: out of range, one turn from Westminster
       [latitude |-> 515213,  longitude |-> -725],    \* 699.98 m from the centre of Shoreditch, radius 700
       [latitude |-> 515225,  longitude |-> -800],    \* in Shoreditch and in Liverpool Street
       [latitude |-> 515178,  longitude |-> -822],    \* the centre of Liverpool Street
       [latitude |-> 515394,  longitude |-> -1426] >> \* the centre of Camden Town

Min(a, b) == IF a < b THEN a ELSE b

Samples == {SamplePoints[i] : i \in 1..Min(MaxSample, Len(SamplePoints))}

(***************************************************************************)
(* App.tsx: checkGeofences                                                 *)
(***************************************************************************)
\* a test that leaves the boundary out
WithinRadius_Strict(distance, radius) == distance # NaN /\ distance < radius * 10

\* App.tsx:98, distance <= zone.radius: false when the distance is NaN
WithinRadius(distance, radius) == distance # NaN /\ distance <= radius * 10

\* the test of one zone, App.tsx:97-98
InZone(lat, lon, zone) ==
    WithinRadius(getDistance(lat, lon, zone.center[2], zone.center[1]), zone.radius)

\* a loop that does not break: the last matching zone wins
RECURSIVE zoneLoop_NoBreak(_, _, _, _)
zoneLoop_NoBreak(lat, lon, i, found) ==
    IF i > Len(GEOFENCE_ZONES) THEN found
    ELSE IF InZone(lat, lon, GEOFENCE_ZONES[i])
         THEN zoneLoop_NoBreak(lat, lon, i + 1,
                               [inZone |-> TRUE, zoneName |-> GEOFENCE_ZONES[i].name])
         ELSE zoneLoop_NoBreak(lat, lon, i + 1, found)

\* App.tsx:93-103: the loop over GEOFENCE_ZONES from zone i on, with the values
\* of inZone and zoneName it leaves
RECURSIVE zoneLoop(_, _, _, _)
zoneLoop(lat, lon, i, found) ==
    IF i > Len(GEOFENCE_ZONES) THEN found
    ELSE IF InZone(lat, lon, GEOFENCE_ZONES[i])
         THEN [inZone |-> TRUE, zoneName |-> GEOFENCE_ZONES[i].name]
         ELSE zoneLoop(lat, lon, i + 1, found)

\* the zone kept when the sample is in none
zoneState_Sticky(m, cur) == IF m.inZone THEN m.zoneName ELSE cur

\* App.tsx:105, setCurrentZone(inZone ? zoneName : null); cur is the value replaced
zoneState(m, cur) == IF m.inZone THEN m.zoneName ELSE null

\* an alert on every sample in a zone
shouldAlert_Always(m, alerted) == m.inZone

\* an alert on every change of zone
shouldAlert_OnChange(m, alerted) == m.inZone /\ m.zoneName # currentZone

\* an alert for the first zone of the session only
shouldAlert_FirstOnly(m, alerted) == m.inZone /\ alerted = {}

\* App.tsx:107, inZone && !alertedZones.current.has(zoneName)
shouldAlert(m, alerted) == m.inZone /\ m.zoneName \notin alerted

\* the name is not recorded
addAlerted_Forget(alerted, zoneName) == alerted

\* App.tsx:108, alertedZones.current.add(zoneName)
addAlerted(alerted, zoneName) == alerted \cup {zoneName}

\* the names of the zones whose test each sample passes
zonesHolding ==
    [s \in Samples |->
        {GEOFENCE_ZONES[i].name : i \in {j \in 1..Len(GEOFENCE_ZONES) :
                                            InZone(s.latitude, s.longitude, GEOFENCE_ZONES[j])}}]

\* the loop's result on each sample, computed once
zoneMatch ==
    [s \in Samples |->
        zoneLoop(s.latitude, s.longitude, 1, [inZone |-> FALSE, zoneName |-> ""])]

\* an iteration that first brings the list into the order of the radii, in place
forOfZones_Sorted(list) ==
    [i \in 1..Len(list) |->
        list[CHOOSE j \in 1..Len(list) :
                Cardinality({k \in 1..Len(list) :
                                \/ list[k].radius < list[j].radius
                                \/ (list[k].radius = list[j].radius /\ k < j)}) = i - 1]]

\* App.tsx:96, for (const zone of GEOFENCE_ZONES): the array after the iteration
forOfZones(list) == list

\* App.tsx:92-117
checkGeofences(lat, lon) ==
    LET m == zoneMatch[[latitude |-> lat, longitude |-> lon]]
    IN /\ zones' = forOfZones(zones)
       /\ currentZone' = zoneState(m, currentZone)
       /\ IF shouldAlert(m, alertedZones)
          THEN /\ alertedZones' = addAlerted(alertedZones, m.zoneName)
               /\ alertZone' = m.zoneName
               /\ showAlert' = TRUE
               /\ lastEvents' = <<m.zoneName>>
               /\ alerts' = Append(alerts, m.zoneName)
          ELSE /\ UNCHANGED <<alertedZones, alertZone, showAlert, alerts>>
               /\ lastEvents' = <<>>

\* the success callbacks of getCurrentPosition and of watchPosition have the
\* same body, App.tsx:137-141 and 151-155
positionCallback(s) ==
    /\ userLocation' = <<s.longitude, s.latitude>>
    /\ checkGeofences(s.latitude, s.longitude)
    /\ lastSample' = <<s>>
    /\ prevSample' = lastSample
    /\ prevZone' = currentZone
    /\ prevAlerted' = alertedZones
    /\ enteredBefore' = enteredBefore \cup
                            (IF lastSample = <<>> THEN {} ELSE zonesHolding[lastSample[1]])

(***************************************************************************)
(* App.tsx: the handlers                                                   *)
(***************************************************************************)
\* App.tsx:120-129 and 132-161; geolocation: whether navigator.geolocation exists
requestLocationPermission(geolocation) ==
    /\ locationPermission = "prompt"
    /\ IF geolocation
       THEN /\ locationPermission' = "granted"
            /\ initialPending' = TRUE
            /\ watchId' = "1"
       ELSE /\ locationPermission' = "denied"
            /\ UNCHANGED <<initialPending, watchId>>
    /\ lastOp' = "permission"
    /\ UNCHANGED <<userLocation, showAlert, alertZone, currentZone, alertedZones,
                   lastSample, prevSample, prevZone, prevAlerted, enteredBefore, lastEvents,
                   alerts>>
    /\ UNCHANGED <<reportVars, mapLoadVars, zones>>
    /\ UNCHANGED feedVars

\* a one-shot callback that does not see the zones the watch has alerted
InitialPosition_OwnAlerted(s) ==
    /\ initialPending
    /\ initialPending' = FALSE
    /\ userLocation' = <<s.longitude, s.latitude>>
    /\ currentZone' = zoneState(zoneMatch[s], currentZone)
    /\ IF zoneMatch[s].inZone
       THEN /\ alertedZones' = addAlerted(alertedZones, zoneMatch[s].zoneName)
            /\ alertZone' = zoneMatch[s].zoneName
            /\ showAlert' = TRUE
            /\ lastEvents' = <<zoneMatch[s].zoneName>>
            /\ alerts' = Append(alerts, zoneMatch[s].zoneName)
       ELSE /\ UNCHANGED <<alertedZones, alertZone, showAlert, alerts>>
            /\ lastEvents' = <<>>
    /\ lastOp' = "initial"
    /\ lastSample' = <<s>>
    /\ prevSample' = lastSample
    /\ prevZone' = currentZone
    /\ prevAlerted' = alertedZones
    /\ enteredBefore' = enteredBefore \cup
                            (IF lastSample = <<>> THEN {} ELSE zonesHolding[lastSample[1]])
    /\ UNCHANGED <<locationPermission, watchId>>
    /\ UNCHANGED <<reportVars, mapLoadVars, zones>>
    /\ UNCHANGED feedVars

\* App.tsx:137-141
InitialPosition(s) ==
    /\ initialPending
    /\ initialPending' = FALSE
    /\ positionCallback(s)
    /\ lastOp' = "initial"
    /\ UNCHANGED <<locationPermission, watchId>>
    /\ UNCHANGED <<reportVars, mapLoadVars>>
    /\ UNCHANGED feedVars

\* App.tsx:142-145
InitialError ==
    /\ initialPending
    /\ initialPending' = FALSE
    /\ locationPermission' = "denied"
    /\ lastOp' = "error"
    /\ UNCHANGED <<watchId, userLocation, showAlert, alertZone, currentZone, alertedZones,
                   lastSample, prevSample, prevZone, prevAlerted, enteredBefore, lastEvents,
                   alerts>>
    /\ UNCHANGED <<reportVars, mapLoadVars, zones>>
    /\ UNCHANGED feedVars

\* App.tsx:151-155
WatchPosition(s) ==
    /\ watchId # null
    /\ positionCallback(s)
    /\ lastOp' = "watch"
    /\ UNCHANGED <<locationPermission, initialPending, watchId>>
    /\ UNCHANGED <<reportVars, mapLoadVars>>
    /\ UNCHANGED feedVars

\* a Dismiss that lets every zone alert again
Dismiss_Rearm ==
    /\ locationPermission # "prompt"
    /\ showAlert
    /\ showAlert' = FALSE
    /\ alertedZones' = {}
    /\ lastOp' = "dismiss"
    /\ UNCHANGED <<locationPermission, initialPending, watchId, userLocation, alertZone,
                   currentZone, lastSample, prevSample, prevZone,
                   prevAlerted, enteredBefore, lastEvents, alerts>>
    /\ UNCHANGED <<reportVars, mapLoadVars, zones>>
    /\ UNCHANGED feedVars

\* App.tsx:472, the Dismiss button of the alert overlay
Dismiss ==
    /\ locationPermission # "prompt"
    /\ showAlert
    /\ showAlert' = FALSE
    /\ lastOp' = "dismiss"
    /\ UNCHANGED <<locationPermission, initialPending, watchId, userLocation, alertZone,
                   currentZone, alertedZones, lastSample, prevSample, prevZone,
                   prevAlerted, enteredBefore, lastEvents, alerts>>
    /\ UNCHANGED <<reportVars, mapLoadVars, zones>>
    /\ UNCHANGED feedVars

(***************************************************************************)
(* App.tsx: the report modal                                               *)
(***************************************************************************)
\* A report text is known by its white space at the two ends (spaces) and by the
\* characters from the first to the last that is not white space (body).
EmptyText == [spaces |-> 0, body |-> 0]

\* reportText.length
Length(text) == text.spaces + text.body

\* the text returned as it is
trim_Nothing(text) == text

\* reportText.trim(), App.tsx:211, 217 and 546
trim(text) == [spaces |-> 0, body |-> text.body]

\* the maxLength attribute of the textarea, App.tsx:531
maxLength == 200

\* the longest report the handler and the button accept, App.tsx:211 and 546
MaxReportLength == 200

\* what may be typed or pasted: '', blanks only, a padded text, a text of
\* maxLength characters, and one character more than that
TextInputs == { EmptyText,
                [spaces |-> 3, body |-> 0],
                [spaces |-> 2, body |-> 5],
                [spaces |-> 0, body |-> maxLength],
                [spaces |-> 1, body |-> maxLength] }

\* App.tsx:546, the disabled attribute of the Submit Report button
SubmitDisabled ==
    trim(reportText) = EmptyText \/ Length(reportText) > MaxReportLength \/ submitting

\* App.tsx:514-520, the Report Theft button: disabled without a location
OpenReport ==
    /\ locationPermission # "prompt"
    /\ userLocation # <<>>
    /\ ~showReportModal
    /\ showReportModal' = TRUE
    /\ lastOp' = "open"
    /\ UNCHANGED <<reportText, submitting, pendingReport, lastReport>>
    /\ UNCHANGED <<locationPermission, initialPending, watchId, userLocation, showAlert,
                   alertZone, currentZone, alertedZones, lastSample, prevSample, prevZone,
                   prevAlerted, enteredBefore, lastEvents, alerts, mapLoadVars, zones>>
    /\ UNCHANGED feedVars

\* App.tsx:524 and 538-543, a click on the overlay or on Cancel
CloseReport ==
    /\ showReportModal
    /\ showReportModal' = FALSE
    /\ lastOp' = "close"
    /\ UNCHANGED <<reportText, submitting, pendingReport, lastReport>>
    /\ UNCHANGED <<locationPermission, initialPending, watchId, userLocation, showAlert,
                   alertZone, currentZone, alertedZones, lastSample, prevSample, prevZone,
                   prevAlerted, enteredBefore, lastEvents, alerts, mapLoadVars, zones>>
    /\ UNCHANGED feedVars

\* App.tsx:528-533, onChange of the textarea, which holds at most maxLength characters
ChangeReportText(text) ==
    /\ showReportModal
    /\ text # reportText
    /\ Length(text) <= maxLength
    /\ reportText' = text
    /\ lastOp' = "type"
    /\ UNCHANGED <<showReportModal, submitting, pendingReport, lastReport>>
    /\ UNCHANGED <<locationPermission, initialPending, watchId, userLocation, showAlert,
                   alertZone, currentZone, alertedZones, lastSample, prevSample, prevZone,
                   prevAlerted, enteredBefore, lastEvents, alerts, mapLoadVars, zones>>
    /\ UNCHANGED feedVars

\* App.tsx:210-220, a click on the Submit Report button: the handler up to its
\* await, with addDoc called
submitReport ==
    /\ showReportModal
    /\ ~SubmitDisabled
    /\ IF userLocation = <<>> \/ trim(reportText) = EmptyText
          \/ Length(reportText) > MaxReportLength
       THEN UNCHANGED <<submitting, pendingReport>>
       ELSE /\ submitting' = TRUE
            /\ pendingReport' = <<[latitude    |-> userLocation[2],
                                   longitude   |-> userLocation[1],
                                   description |-> trim(reportText)]>>
    /\ lastOp' = "submit"
    /\ UNCHANGED <<showReportModal, reportText, lastReport>>
    /\ UNCHANGED <<locationPermission, initialPending, watchId, userLocation, showAlert,
                   alertZone, currentZone, alertedZones, lastSample, prevSample, prevZone,
                   prevAlerted, enteredBefore, lastEvents, alerts, mapLoadVars, zones>>
    /\ UNCHANGED feedVars

\* App.tsx:220-222 and 226-228: addDoc resolved, the document is in the collection
addDocResolve ==
    /\ pendingReport # <<>>
    /\ lastReport' = pendingReport
    /\ pendingReport' = <<>>
    /\ reportText' = EmptyText
    /\ showReportModal' = FALSE
    /\ submitting' = FALSE
    /\ lastOp' = "written"
    /\ UNCHANGED <<locationPermission, initialPending, watchId, userLocation, showAlert,
                   alertZone, currentZone, alertedZones, lastSample, prevSample, prevZone,
                   prevAlerted, enteredBefore, lastEvents, alerts, mapLoadVars, zones>>
    /\ UNCHANGED feedVars

\* App.tsx:223-228: addDoc rejected
addDocReject ==
    /\ pendingReport # <<>>
    /\ pendingReport' = <<>>
    /\ submitting' = FALSE
    /\ lastOp' = "rejected"
    /\ UNCHANGED <<showReportModal, reportText, lastReport>>
    /\ UNCHANGED <<locationPermission, initialPending, watchId, userLocation, showAlert,
                   alertZone, currentZone, alertedZones, lastSample, prevSample, prevZone,
                   prevAlerted, enteredBefore, lastEvents, alerts, mapLoadVars, zones>>
    /\ UNCHANGED feedVars

\* App.tsx:59-74, after the first render and its effects. The first render is
\* the permission prompt (App.tsx:64 and 448-462), which has no map container:
\* the effect of App.tsx:233-392 finds mapContainer.current null and returns at
\* line 234, and with its empty dependency list it does not run again. No map
\* is made and no load handler is registered.
GeoInit ==
    /\ zones = GEOFENCE_ZONES
    /\ map = null
    /\ loading = TRUE
    /\ crimeCount = 0
    /\ showReportModal = FALSE
    /\ reportText = EmptyText
    /\ submitting = FALSE
    /\ pendingReport = <<>>
    /\ lastReport = <<>>
    /\ locationPermission = "prompt"
    /\ initialPending = FALSE
    /\ watchId = null
    /\ userLocation = <<>>
    /\ showAlert = FALSE
    /\ alertZone = ""
    /\ currentZone = null
    /\ alertedZones = {}
    /\ lastOp = "init"
    /\ lastSample = <<>>
    /\ prevSample = <<>>
    /\ prevZone = null
    /\ prevAlerted = {}
    /\ enteredBefore = {}
    /\ lastEvents = <<>>
    /\ alerts = <<>>

(***************************************************************************)
(* policeApi.ts: strings, parseFloat and the template literal              *)
(***************************************************************************)
\* A string is a sequence of one-character strings; the value undefined is the
\* one-token sequence <<"undefined">>, which parseFloat reads as its text.
Digits == <<"0", "1", "2", "3", "4", "5", "6", "7", "8", "9">>

IsDigit(c) == \E d \in 1..10 : Digits[d] = c

DigitValue(c) == (CHOOSE d \in 1..10 : Digits[d] = c) - 1

\* the length of the run of digits of str from position i
RECURSIVE DigitRun(_, _)
DigitRun(str, i) ==
    IF i <= Len(str) /\ IsDigit(str[i]) THEN 1 + DigitRun(str, i + 1) ELSE 0

\* the value of the digits str[i .. i + n - 1], after acc
RECURSIVE DigitsValue(_, _, _, _)
DigitsValue(str, i, n, acc) ==
    IF n = 0 THEN acc
    ELSE DigitsValue(str, i + 1, n - 1, acc * 10 + DigitValue(str[i]))

\* the four first decimals str[i .. i + n - 1] as a number of 1e-4
RECURSIVE Decimals(_, _, _, _)
Decimals(str, i, n, place) ==
    IF n = 0 \/ place = 0 THEN 0
    ELSE DigitValue(str[i]) * place + Decimals(str, i + 1, n - 1, place \div 10)

\* JavaScript's parseFloat in units of 1e-4: an optional sign, digits, an optional
\* point and digits are read from the start of the string and the rest is
\* ignored; NaN when no digit is read. (Exponents and leading blanks do not occur
\* in the strings of the model.)
parseFloat(str) ==
    LET neg   == Len(str) > 0 /\ str[1] = "-"
        start == IF neg THEN 2 ELSE 1
        n     == DigitRun(str, start)
        dot   == start + n <= Len(str) /\ str[start + n] = "."
        m     == IF dot THEN DigitRun(str, start + n + 1) ELSE 0
        mag   == DigitsValue(str, start, n, 0) * 10000
                 + (IF dot THEN Decimals(str, start + n + 1, m, 1000) ELSE 0)
    IN IF n + m = 0 THEN NaN ELSE IF neg THEN -mag ELSE mag

\* `${n}` of a number n >= 0: its decimal digits
RECURSIVE NumberToString(_)
NumberToString(n) ==
    IF n < 10 THEN <<Digits[n + 1]>>
    ELSE Append(NumberToString(n \div 10), Digits[(n % 10) + 1])

(***************************************************************************)
(* The Police API responses                                                *)
(***************************************************************************)
undefined == <<"undefined">>

\* PoliceCrime, policeApi.ts:4-24: id, persistent_id, category and the location's
\* latitude and longitude (street, month and outcome_status are copied through
\* by the transform and are left out)
RawRecords ==
    { [id |-> 1, persistent_id |-> <<"a", "1">>, category |-> "theft-from-the-person",
       latitude |-> <<"5", "1", ".", "5", "0", "7", "4">>,
       longitude |-> <<"-", "0", ".", "1", "2", "7", "6">>],
      \* no persistent_id, an id of two digits, and no longitude at all
      [id |-> 12, persistent_id |-> <<>>, category |-> "robbery",
       latitude |-> <<"5", "1", ".", "5">>, longitude |-> undefined],
      \* the persistent_id of the first record again, as overlapping queries return
      [id |-> 3, persistent_id |-> <<"a", "1">>, category |-> "other-theft",
       latitude |-> <<"5", "1", ".", "5", "2">>,
       longitude |-> <<"-", "0", ".", "1", "3">>],
      \* a latitude that is no number, in a category the statistics do not count
      [id |-> 4, persistent_id |-> <<"b", "4">>, category |-> "burglary",
       latitude |-> <<"a", "b", "c">>, longitude |-> <<"-", "0", ".", "1">>] }

\* the sequences over S of length at most n
SeqsUpTo(S, n) == UNION {[1..k -> S] : k \in 0..n}

Batches == SeqsUpTo(RawRecords, MaxBatch)

\* records in a category of the tables of policeApi.ts:37-70, in one that is in
\* neither, in one named like a member of Object.prototype, and two without any
\* identifier
MapRecords ==
    { [id |-> 1, persistent_id |-> <<"a", "1">>, category |-> "robbery",
       latitude |-> <<"5", "1", ".", "5", "0", "7", "4">>,
       longitude |-> <<"-", "0", ".", "1", "2", "7", "6">>],
      [id |-> 12, persistent_id |-> <<>>, category |-> "hate-crime",
       latitude |-> <<"5", "1", ".", "5">>, longitude |-> <<"-", "0", ".", "1">>],
      [id |-> 4, persistent_id |-> <<"b", "4">>, category |-> "constructor",
       latitude |-> <<"5", "1", ".", "5", "2">>,
       longitude |-> <<"-", "0", ".", "1", "3">>],
      [persistent_id |-> <<>>, category |-> "burglary",
       latitude |-> <<"5", "1", ".", "5", "1">>,
       longitude |-> <<"-", "0", ".", "1", "2">>],
      [persistent_id |-> <<>>, category |-> "robbery",
       latitude |-> <<"5", "1", ".", "4", "9">>,
       longitude |-> <<"-", "0", ".", "1", "1">>] }

MapBatches == SeqsUpTo(MapRecords, MaxBatch)

\* the messages of the errors fetchCrimeData throws, policeApi.ts:112-138
FetchErrors == {"Police API is temporarily unavailable. Please try again later.",
                "Invalid response from Police API. Please try again later."}

(***************************************************************************)
(* policeApi.ts: fetchCrimeData and fetchCrimeDataForArea                  *)
(***************************************************************************)
\* `${crime.id}` and what crime.id.toString() is called on: a record without
\* the field has the id undefined
idText(crime) == IF "id" \in DOMAIN crime THEN NumberToString(crime.id) ELSE undefined

\* policeApi.ts:144, crime.persistent_id || `${crime.id}`
crimeId(crime) ==
    IF crime.persistent_id # <<>> THEN crime.persistent_id ELSE idText(crime)

\* policeApi.ts:143-151, the transform of one record
toCrimeData(crime) ==
    [id       |-> crimeId(crime),
     category |-> crime.category,
     lat      |-> parseFloat(crime.latitude),
     lng      |-> parseFloat(crime.longitude)]

\* policeApi.ts:143-153: what fetchCrimeData resolves to when the response parses
fetchCrimeData(data) == [i \in 1..Len(data) |-> toCrimeData(data[i])]

\* a loop that puts each new record in front of the list
RECURSIVE dedupe_Unshift(_, _, _, _)
dedupe_Unshift(list, i, seenIds, crimes) ==
    IF i > Len(list) THEN crimes
    ELSE IF list[i].id \notin seenIds
         THEN dedupe_Unshift(list, i + 1, seenIds \cup {list[i].id}, <<list[i]>> \o crimes)
         ELSE dedupe_Unshift(list, i + 1, seenIds, crimes)

\* a loop that starts at the second record
RECURSIVE dedupe_FromSecond(_, _, _, _)
dedupe_FromSecond(list, i, seenIds, crimes) ==
    IF i > Len(list) THEN crimes
    ELSE IF i = 1 THEN dedupe_FromSecond(list, 2, seenIds, crimes)
    ELSE IF list[i].id \notin seenIds
         THEN dedupe_FromSecond(list, i + 1, seenIds \cup {list[i].id}, Append(crimes, list[i]))
         ELSE dedupe_FromSecond(list, i + 1, seenIds, crimes)

\* policeApi.ts:199-204, the forEach over centerCrimes from element i on
RECURSIVE dedupe(_, _, _, _)
dedupe(list, i, seenIds, crimes) ==
    IF i > Len(list) THEN crimes
    ELSE IF list[i].id \notin seenIds
         THEN dedupe(list, i + 1, seenIds \cup {list[i].id}, Append(crimes, list[i]))
         ELSE dedupe(list, i + 1, seenIds, crimes)

\* policeApi.ts:187-207: what fetchCrimeDataForArea resolves to
fetchCrimeDataForArea(data) == dedupe(fetchCrimeData(data), 1, {}, <<>>)

(***************************************************************************)
(* App.tsx: fetchPoliceData                                                *)
(***************************************************************************)
\* App.tsx:176-183, the transform of one record
toTheftData(crime) ==
    [id        |-> idText(crime),
     latitude  |-> parseFloat(crime.latitude),
     longitude |-> parseFloat(crime.longitude),
     category  |-> crime.category]

\* App.tsx:164-188: what fetchPoliceData resolves to. ok: the fetch resolved with
\* response.ok. crime.id.toString() throws on a record without an id, and the
\* catch of line 184 returns [] for that as for a failed fetch.
fetchPoliceData(ok, data) ==
    IF ~ok \/ \E i \in 1..Len(data) : "id" \notin DOMAIN data[i] THEN <<>>
    ELSE [i \in 1..Len(data) |-> toTheftData(data[i])]

(***************************************************************************)
(* Map.tsx: the police markers                                             *)
(***************************************************************************)
\* policeApi.ts:37-52
CRIME_CATEGORY_MAPPING ==
    "anti-social-behaviour" :> "Anti-social behaviour" @@
    "bicycle-theft" :> "Bicycle theft" @@
    "burglary" :> "Burglary" @@
    "criminal-damage-arson" :> "Criminal damage" @@
    "drugs" :> "Drugs" @@
    "other-theft" :> "Other theft" @@
    "possession-of-weapons" :> "Weapons" @@
    "public-order" :> "Public order" @@
    "robbery" :> "Robbery" @@
    "shoplifting" :> "Shoplifting" @@
    "theft-from-the-person" :> "Theft from person" @@
    "vehicle-crime" :> "Vehicle crime" @@
    "violent-crime" :> "Violent crime" @@
    "other-crime" :> "Other crime"

\* policeApi.ts:55-70
CRIME_CATEGORY_COLORS ==
    "theft-from-the-person" :> "#FF0000" @@
    "robbery" :> "#FF3300" @@
    "other-theft" :> "#FF6600" @@
    "violent-crime" :> "#CC0000" @@
    "burglary" :> "#FF9900" @@
    "vehicle-crime" :> "#FFCC00" @@
    "anti-social-behaviour" :> "#9966FF" @@
    "criminal-damage-arson" :> "#FF6699" @@
    "drugs" :> "#669900" @@
    "public-order" :> "#3399FF" @@
    "shoplifting" :> "#FF9966" @@
    "bicycle-theft" :> "#66CCCC" @@
    "possession-of-weapons" :> "#990000" @@
    "other-crime" :> "#999999"

\* Both tables are object literals, so a property they do not define is looked
\* up in Object.prototype: its members, as the text they give in the popup's
\* template literal and in the style assignment
ObjectPrototype ==
    "constructor" :> "function Object() { [native code] }" @@
    "toString" :> "function toString() { [native code] }" @@
    "valueOf" :> "function valueOf() { [native code] }"

\* table[key] of Map.tsx:130-131: <<the value>>, or <<>> for undefined
Property(table, key) ==
    IF key \in DOMAIN table THEN <<table[key]>>
    ELSE IF key \in DOMAIN ObjectPrototype THEN <<ObjectPrototype[key]>>
    ELSE <<>>

\* value || fallback of Map.tsx:130-131: no value of the two tables is falsy
OrElse(value, fallback) == IF value = <<>> THEN fallback ELSE value[1]

\* Map.tsx:129-157, the marker of one crime: the colour of its element, the
\* label of its popup and its place
markerOf(crime) ==
    [color        |-> OrElse(Property(CRIME_CATEGORY_COLORS, crime.category), "#999999"),
     categoryName |-> OrElse(Property(CRIME_CATEGORY_MAPPING, crime.category),
                             crime.category),
     lng          |-> crime.lng,
     lat          |-> crime.lat]

\* Map.tsx:118-160, the effect on [policeCrimes, showPoliceData]: the markers it
\* leaves in policeMarkers.current (the map of Map.tsx exists since its mount)
policeMarkersEffect(crimes, show) ==
    IF ~show THEN <<>> ELSE [i \in 1..Len(crimes) |-> markerOf(crimes[i])]

(***************************************************************************)
(* page.tsx: the statistics                                                *)
(***************************************************************************)
\* a count of the records of another category
RECURSIVE countCategory_Others(_, _)
countCategory_Others(crimes, category) ==
    IF crimes = <<>> THEN 0
    ELSE (IF Head(crimes).category # category THEN 1 ELSE 0)
         + countCategory_Others(Tail(crimes), category)

\* page.tsx:229-231, crimes.filter(c => c.category === category).length
RECURSIVE countCategory(_, _)
countCategory(crimes, category) ==
    IF crimes = <<>> THEN 0
    ELSE (IF Head(crimes).category = category THEN 1 ELSE 0)
         + countCategory(Tail(crimes), category)

\* page.tsx:229-238
policeStatsOf(crimes) ==
    [total           |-> Len(crimes),
     theftFromPerson |-> countCategory(crimes, "theft-from-the-person"),
     robbery         |-> countCategory(crimes, "robbery"),
     otherTheft      |-> countCategory(crimes, "other-theft")]

\* the types a document of the incidents collection may hold: data.type is read
\* as the store gives it, so the three of IncidentForm and one written otherwise
IncidentTypes == {"theft", "suspicious", "safe", "other"}

Docs == {[id |-> <<"d">>, type |-> t] : t \in IncidentTypes}

Snapshots == SeqsUpTo(Docs, MaxDocs)

\* page.tsx:256-276, snapshot.forEach from document i on: the list and the counters
RECURSIVE snapshotLoop(_, _, _)
snapshotLoop(docs, i, acc) ==
    IF i > Len(docs) THEN acc
    ELSE LET t == docs[i].type
         IN snapshotLoop(docs, i + 1,
              [incidentData    |-> Append(acc.incidentData, [id |-> docs[i].id, type |-> t]),
               theftCount      |-> acc.theftCount + (IF t = "theft" THEN 1 ELSE 0),
               suspiciousCount |-> acc.suspiciousCount
                                   + (IF t # "theft" /\ t = "suspicious" THEN 1 ELSE 0),
               safeCount       |-> acc.safeCount
                                   + (IF t # "theft" /\ t # "suspicious" /\ t = "safe"
                                      THEN 1 ELSE 0)])

(***************************************************************************)
(* page.tsx: the handlers                                                  *)
(***************************************************************************)
\* page.tsx:219-221: the effect runs on mount (setMapCenter is never called)
LoadStart ==
    /\ loadPc = "mount"
    /\ loadPc' = "pending"
    /\ crimeDataLoading' = TRUE
    /\ crimeDataError' = null
    /\ UNCHANGED <<policeCrimes, policeStats, incidents, stats, rawData, areaCrimes,
                   snapshotDocs>>
    /\ UNCHANGED <<theftCrimes, markerVars>>
    /\ UNCHANGED <<geoVars, formVars>>

\* page.tsx:225-240 and 244-246: fetchCrimeData resolved; the page renders the
\* Map with the new policeCrimes (page.tsx:359-362) and its effect runs
LoadResolve ==
    /\ loadPc = "pending"
    /\ loadPc' = "loaded"
    /\ LET crimes == fetchCrimeData(rawData)
       IN /\ policeCrimes' = crimes
          /\ policeStats' = policeStatsOf(crimes)
          /\ policeMarkers' = policeMarkersEffect(crimes, showPoliceData)
    /\ crimeDataLoading' = FALSE
    /\ UNCHANGED <<crimeDataError, incidents, stats, rawData, areaCrimes, snapshotDocs>>
    /\ UNCHANGED <<theftCrimes, showPoliceData>>
    /\ UNCHANGED <<geoVars, formVars>>

\* a catch branch without the finally: the flag is left as it is
LoadReject_StillLoading(message) ==
    /\ loadPc = "pending"
    /\ loadPc' = "failed"
    /\ crimeDataError' = message
    /\ UNCHANGED <<policeCrimes, policeStats, crimeDataLoading, incidents, stats, rawData,
                   areaCrimes, snapshotDocs>>
    /\ UNCHANGED <<theftCrimes, markerVars>>
    /\ UNCHANGED <<geoVars, formVars>>

\* page.tsx:241-246: fetchCrimeData threw
LoadReject(message) ==
    /\ loadPc = "pending"
    /\ loadPc' = "failed"
    /\ crimeDataError' = message
    /\ crimeDataLoading' = FALSE
    /\ UNCHANGED <<policeCrimes, policeStats, incidents, stats, rawData, areaCrimes,
                   snapshotDocs>>
    /\ UNCHANGED <<theftCrimes, markerVars>>
    /\ UNCHANGED <<geoVars, formVars>>

\* a caller of the exported fetchCrimeDataForArea, answered with rawData
FetchArea ==
    /\ areaCrimes = <<>>
    /\ areaCrimes' = <<fetchCrimeDataForArea(rawData)>>
    /\ UNCHANGED <<policeCrimes, policeStats, crimeDataLoading, crimeDataError, incidents,
                   stats, loadPc, rawData, snapshotDocs>>
    /\ UNCHANGED <<theftCrimes, markerVars>>
    /\ UNCHANGED <<geoVars, formVars>>

\* the call of fetchPoliceData, App.tsx:278, answered with rawData
ApplyFetchPoliceData(ok) ==
    /\ theftCrimes = <<>>
    /\ theftCrimes' = <<[ok |-> ok, crimes |-> fetchPoliceData(ok, rawData)]>>
    /\ UNCHANGED <<policeCrimes, policeStats, crimeDataLoading, crimeDataError, incidents,
                   stats, loadPc, rawData, areaCrimes, snapshotDocs, markerVars>>
    /\ UNCHANGED <<geoVars, formVars>>

\* Map.tsx:165-174, the Hide / Show Police Data button, and the effect that runs
\* on the new showPoliceData
TogglePoliceData ==
    /\ showPoliceData' = ~showPoliceData
    /\ policeMarkers' = policeMarkersEffect(policeCrimes, showPoliceData')
    /\ UNCHANGED <<policeCrimes, policeStats, crimeDataLoading, crimeDataError, incidents,
                   stats, loadPc, rawData, areaCrimes, snapshotDocs, theftCrimes>>
    /\ UNCHANGED <<geoVars, formVars>>

\* page.tsx:255-285, the onSnapshot callback
OnSnapshot(docs) ==
    /\ LET acc == snapshotLoop(docs, 1, [incidentData |-> <<>>, theftCount |-> 0,
                                         suspiciousCount |-> 0, safeCount |-> 0])
       IN /\ incidents' = acc.incidentData
          /\ stats' = [total      |-> Len(acc.incidentData),
                       theft      |-> acc.theftCount,
                       suspicious |-> acc.suspiciousCount,
                       safe       |-> acc.safeCount]
    /\ snapshotDocs' = docs
    /\ UNCHANGED <<policeCrimes, policeStats, crimeDataLoading, crimeDataError, loadPc,
                   rawData, areaCrimes>>
    /\ UNCHANGED <<theftCrimes, markerVars>>
    /\ UNCHANGED <<geoVars, formVars>>

(***************************************************************************)
(* page.tsx and IncidentForm.tsx: the incident form                        *)
(***************************************************************************)
\* the places of the map the user may tap
FormClicks == { [lat |-> 515074, lng |-> -1278], [lat |-> 515390, lng |-> -1426] }

\* the options of the select, IncidentForm.tsx:40-42
FormOptions == {"theft", "suspicious", "safe"}

\* what may be typed into the description: '', a blank, a text
FormTexts == { EmptyText, [spaces |-> 1, body |-> 0], [spaces |-> 0, body |-> 5] }

\* IncidentForm.tsx:13-15, the state a form instance is constructed with; the
\* state of an instance is gone when it is unmounted
formMount ==
    /\ type' = "theft"
    /\ description' = EmptyText
    /\ isSubmitting' = FALSE

\* page.tsx:290-293 handleMapClick, called by the click handler of Map.tsx:72-74;
\* the form's overlay covers the map while it is shown (IncidentForm.tsx:25)
handleMapClick(lat, lng) ==
    /\ ~showForm
    /\ formKey < MaxForms
    /\ selectedLocation' = <<[lat |-> lat, lng |-> lng]>>
    /\ showForm' = TRUE
    /\ formKey' = formKey + 1
    /\ formMount
    /\ formOp' = "click"
    /\ UNCHANGED <<pendingIncidents, lastIncident>>
    /\ UNCHANGED <<policeCrimes, policeStats, crimeDataLoading, crimeDataError, incidents,
                   stats, loadPc, rawData, areaCrimes, snapshotDocs, theftCrimes, markerVars>>
    /\ UNCHANGED geoVars

\* IncidentForm.tsx:37, onChange of the select
setType(t) ==
    /\ showForm
    /\ type' = t
    /\ formOp' = "type"
    /\ UNCHANGED <<showForm, selectedLocation, description, isSubmitting, formKey,
                   pendingIncidents, lastIncident>>
    /\ UNCHANGED <<policeCrimes, policeStats, crimeDataLoading, crimeDataError, incidents,
                   stats, loadPc, rawData, areaCrimes, snapshotDocs, theftCrimes, markerVars>>
    /\ UNCHANGED geoVars

\* IncidentForm.tsx:50, onChange of the textarea
setDescription(text) ==
    /\ showForm
    /\ description' = text
    /\ formOp' = "describe"
    /\ UNCHANGED <<showForm, selectedLocation, type, isSubmitting, formKey,
                   pendingIncidents, lastIncident>>
    /\ UNCHANGED <<policeCrimes, policeStats, crimeDataLoading, crimeDataError, incidents,
                   stats, loadPc, rawData, areaCrimes, snapshotDocs, theftCrimes, markerVars>>
    /\ UNCHANGED geoVars

\* IncidentForm.tsx:17-20 handleSubmit up to its await, and page.tsx:295-300
\* handleIncidentSubmit up to its await: the Report button is disabled while
\* isSubmitting (line 68) and the textarea is required (line 54)
handleSubmit ==
    /\ showForm
    /\ ~isSubmitting
    /\ Length(description) > 0
    /\ isSubmitting' = TRUE
    /\ pendingIncidents' =
            Append(pendingIncidents,
                   [form |-> formKey,
                    data |-> [type |-> type, description |-> description,
                              lat |-> selectedLocation[1].lat,
                              lng |-> selectedLocation[1].lng]])
    /\ formOp' = "submit"
    /\ UNCHANGED <<showForm, selectedLocation, type, description, formKey, lastIncident>>
    /\ UNCHANGED <<policeCrimes, policeStats, crimeDataLoading, crimeDataError, incidents,
                   stats, loadPc, rawData, areaCrimes, snapshotDocs, theftCrimes, markerVars>>
    /\ UNCHANGED geoVars

\* the sequence without its i-th element
RemoveAt(seq, i) == [k \in 1..(Len(seq) - 1) |-> IF k < i THEN seq[k] ELSE seq[k + 1]]

\* page.tsx:301-302, the addDoc resolves: the form on screen, whichever instance
\* it is, is closed; setIsSubmitting(false) of IncidentForm.tsx:21 then finds
\* no instance
incidentResolve(i) ==
    /\ i \in 1..Len(pendingIncidents)
    /\ pendingIncidents' = RemoveAt(pendingIncidents, i)
    /\ lastIncident' = <<pendingIncidents[i].data>>
    /\ showForm' = FALSE
    /\ selectedLocation' = <<>>
    /\ formMount
    /\ formOp' = "written"
    /\ UNCHANGED formKey
    /\ UNCHANGED <<policeCrimes, policeStats, crimeDataLoading, crimeDataError, incidents,
                   stats, loadPc, rawData, areaCrimes, snapshotDocs, theftCrimes, markerVars>>
    /\ UNCHANGED geoVars

\* page.tsx:303-306, the addDoc rejects: the error is caught and reported, and
\* setIsSubmitting(false) of IncidentForm.tsx:21 reaches the instance that
\* submitted, if it is still the one on screen
incidentReject(i) ==
    /\ i \in 1..Len(pendingIncidents)
    /\ pendingIncidents' = RemoveAt(pendingIncidents, i)
    /\ isSubmitting' = IF showForm /\ formKey = pendingIncidents[i].form
                         THEN FALSE
                         ELSE isSubmitting
    /\ formOp' = "rejected"
    /\ UNCHANGED <<showForm, selectedLocation, type, description, formKey, lastIncident>>
    /\ UNCHANGED <<policeCrimes, policeStats, crimeDataLoading, crimeDataError, incidents,
                   stats, loadPc, rawData, areaCrimes, snapshotDocs, theftCrimes, markerVars>>
    /\ UNCHANGED geoVars

\* page.tsx:391-394, the Cancel button of the form (IncidentForm.tsx:59-61)
onCancel ==
    /\ showForm
    /\ showForm' = FALSE
    /\ selectedLocation' = <<>>
    /\ formMount
    /\ formOp' = "cancel"
    /\ UNCHANGED <<formKey, pendingIncidents, lastIncident>>
    /\ UNCHANGED <<policeCrimes, policeStats, crimeDataLoading, crimeDataError, incidents,
                   stats, loadPc, rawData, areaCrimes, snapshotDocs, theftCrimes, markerVars>>
    /\ UNCHANGED geoVars

\* page.tsx:207-214 and Map.tsx:26-28
FeedInit ==
    /\ showForm = FALSE
    /\ selectedLocation = <<>>
    /\ type = "theft"
    /\ description = EmptyText
    /\ isSubmitting = FALSE
    /\ formKey = 0
    /\ pendingIncidents = <<>>
    /\ lastIncident = <<>>
    /\ formOp = "init"
    /\ policeCrimes = <<>>
    /\ policeStats = [total |-> 0, theftFromPerson |-> 0, robbery |-> 0, otherTheft |-> 0]
    /\ crimeDataLoading = FALSE
    /\ crimeDataError = null
    /\ incidents = <<>>
    /\ stats = [total |-> 0, theft |-> 0, suspicious |-> 0, safe |-> 0]
    /\ loadPc = "mount"
    /\ areaCrimes = <<>>
    /\ snapshotDocs = <<>>
    /\ theftCrimes = <<>>
    /\ showPoliceData = TRUE
    /\ policeMarkers = <<>>

(***************************************************************************)
(* The specifications                                                      *)
(***************************************************************************)
\* the app of App.tsx; the feed stays as constructed
Init == GeoInit /\ FeedInit /\ rawData = <<>>

Next ==
    \/ \E g \in BOOLEAN : requestLocationPermission(g)
    \/ \E s \in Samples : InitialPosition(s)
    \/ InitialError
    \/ \E s \in Samples : WatchPosition(s)
    \/ Dismiss

Spec == Init /\ [][Next]_vars

\* the page of page.tsx, for each response the Police API may give; the app of
\* App.tsx stays as constructed
FeedSpecInit == GeoInit /\ FeedInit /\ rawData \in Batches

FeedNext ==
    \/ LoadStart
    \/ LoadResolve
    \/ \E message \in FetchErrors : LoadReject(message)
    \/ FetchArea
    \/ \E docs \in Snapshots : OnSnapshot(docs)

FeedSpec == FeedSpecInit /\ [][FeedNext]_vars

\* the app of App.tsx with its report modal, on the first MaxAppSample points
AppSamples == {SamplePoints[i] : i \in 1..Min(MaxAppSample, Min(MaxSample, Len(SamplePoints)))}

AppNext ==
    \/ \E g \in BOOLEAN : requestLocationPermission(g)
    \/ \E s \in AppSamples : InitialPosition(s)
    \/ InitialError
    \/ \E s \in AppSamples : WatchPosition(s)
    \/ Dismiss
    \/ OpenReport
    \/ CloseReport
    \/ \E text \in TextInputs : ChangeReportText(text)
    \/ submitReport
    \/ addDocResolve
    \/ addDocReject

AppSpec == Init /\ [][AppNext]_vars

\* every handler that can run does run in the end
AppFairSpec == AppSpec /\ WF_vars(AppNext)

\* the Map of Map.tsx in the page of page.tsx, and the two transforms of a
\* response, for each response of MapBatches
MapSpecInit == GeoInit /\ FeedInit /\ rawData \in MapBatches

MapNext ==
    \/ LoadStart
    \/ LoadResolve
    \/ \E message \in FetchErrors : LoadReject(message)
    \/ TogglePoliceData
    \/ \E ok \in BOOLEAN : ApplyFetchPoliceData(ok)

MapSpec == MapSpecInit /\ [][MapNext]_vars

\* the incident form of the page of page.tsx
FormNext ==
    \/ \E c \in FormClicks : handleMapClick(c.lat, c.lng)
    \/ \E t \in FormOptions : setType(t)
    \/ \E text \in FormTexts : setDescription(text)
    \/ handleSubmit
    \/ \E i \in 1..MaxForms : incidentResolve(i)
    \/ \E i \in 1..MaxForms : incidentReject(i)
    \/ onCancel

FormSpec == Init /\ [][FormNext]_vars

(***************************************************************************)
(* Properties of the geofence check (specification Spec)                   *)
(***************************************************************************)
\* how often x occurs in the sequence q
Occurrences(q, x) == Cardinality({i \in 1..Len(q) : q[i] = x})

\* the last position callback has run, with sample LastSample
Evaluated == lastSample # <<>>

LastSample == lastSample[1]

\* valid coordinates: finite, the latitude in [-90, 90], the longitude in [-180, 180]
ValidCoordinates(s) ==
    /\ s.latitude # NaN /\ s.longitude # NaN
    /\ s.latitude >= -900000 /\ s.latitude <= 900000
    /\ s.longitude >= -1800000 /\ s.longitude <= 1800000

\* the positions in GEOFENCE_ZONES of the zones whose test each sample passes
matchesOf ==
    [s \in Samples |->
        {i \in 1..Len(GEOFENCE_ZONES) : InZone(s.latitude, s.longitude, GEOFENCE_ZONES[i])}]

Matches(s) == matchesOf[s]

FirstMatch(s) == CHOOSE i \in Matches(s) : \A j \in Matches(s) : i <= j

\* the distance of each sample to the centre of the zone at each position
distancesOf ==
    [s \in Samples |->
        [i \in 1..Len(GEOFENCE_ZONES) |->
            getDistance(s.latitude, s.longitude,
                        GEOFENCE_ZONES[i].center[2], GEOFENCE_ZONES[i].center[1])]]

\* the distance of the sample s to the centre of the zone at position i
DistanceTo(s, i) == distancesOf[s][i]

\* C1: in a session, however the samples follow each other, no zone name is
\* alerted more than once, also when the user leaves the zone and comes back.
C1_AlertAtMostOncePerZone ==
    \A z \in ZoneNames : Occurrences(alerts, z) <= 1

\* the user is back in a zone that alerted earlier, after a sample outside of it
C1_Witness_ReEntered ==
    /\ Evaluated
    /\ currentZone # null
    /\ prevZone = null
    /\ currentZone \in prevAlerted
    /\ Occurrences(alerts, currentZone) = 1

\* C2: after every evaluation of a sample, an alert was raised exactly when the
\* selected zone is not none and its name was not in alertedZones before, and
\* then the name is in alertedZones; so none for leaving a zone, none for a
\* zone that alerted before, none for staying in the same zone.
C2_AlertIffNewZone ==
    Evaluated =>
        /\ (lastEvents # <<>>) <=> (currentZone # null /\ currentZone \notin prevAlerted)
        /\ lastEvents # <<>> =>
              /\ lastEvents = <<currentZone>>
              /\ currentZone \in alertedZones
              /\ alertedZones = prevAlerted \cup {currentZone}
        /\ lastEvents = <<>> => alertedZones = prevAlerted
        /\ currentZone = null => lastEvents = <<>>
        /\ currentZone \in prevAlerted => lastEvents = <<>>
        /\ (currentZone # null /\ currentZone = prevZone) => lastEvents = <<>>

\* an alert for a second zone, entered directly from another zone
C2_Witness_SecondZoneAlerts ==
    /\ Evaluated
    /\ lastEvents # <<>>
    /\ prevZone # null
    /\ prevZone # currentZone
    /\ prevAlerted # {}

\* C3, as claimed: whenever a sample lies in a zone no earlier sample lay in,
\* that zone alerts.
C3_Original_EveryEnteredZoneAlerts ==
    Evaluated =>
        \A z \in zonesHolding[LastSample] :
            z \notin enteredBefore => \E k \in 1..Len(lastEvents) : lastEvents[k] = z

\* C3, amended: whenever a sample lies in a zone that has not alerted yet and
\* in no zone configured before it, that zone alerts: its name is the alert
\* raised, is the zone of the banner and is in alertedZones. A zone that holds
\* the sample after another zone that holds it raises no alert on that sample.
C3_FirstUnalertedZoneAlerts ==
    Evaluated =>
        \A i \in Matches(LastSample) :
            LET z == GEOFENCE_ZONES[i].name
            IN /\ (z \notin prevAlerted /\ \A j \in Matches(LastSample) : i <= j) =>
                      /\ lastEvents = <<z>>
                      /\ z \in alertedZones
                      /\ alertZone = z
                      /\ lastOp \in {"initial", "watch"} => showAlert
               /\ (\E j \in Matches(LastSample) : j < i) =>
                      \A k \in 1..Len(lastEvents) : lastEvents[k] # z

\* a sample in two zones, neither alerted before: the first of them alerts
C3_Witness_OverlapAlertsFirst ==
    /\ Evaluated
    /\ Cardinality(Matches(LastSample)) >= 2
    /\ \A i \in Matches(LastSample) : GEOFENCE_ZONES[i].name \notin prevAlerted
    /\ lastEvents = <<GEOFENCE_ZONES[FirstMatch(LastSample)].name>>

\* C4: after an evaluation, currentZone is the first zone of GEOFENCE_ZONES whose
\* test the sample passes, none when it passes no test, and an alert raised on
\* that sample is for that zone, also where a later zone is the nearer one.
C4_FirstMatchInConfiguredOrder ==
    Evaluated =>
        IF Matches(LastSample) = {}
        THEN currentZone = null /\ lastEvents = <<>>
        ELSE LET z == GEOFENCE_ZONES[FirstMatch(LastSample)].name
             IN /\ currentZone = z
                /\ \A k \in 1..Len(lastEvents) : lastEvents[k] = z

\* a sample in two zones, the second of them the nearer one, with the first selected
C4_Witness_OverlapNearerLater ==
    /\ Evaluated
    /\ \E i, j \in Matches(LastSample) :
          /\ i < j
          /\ DistanceTo(LastSample, j) < DistanceTo(LastSample, i)
          /\ currentZone = GEOFENCE_ZONES[i].name

\* C5: a sample farther from every zone centre than the zone's radius leaves
\* currentZone none, raises no alert and leaves alertedZones as it was,
\* whatever currentZone was before.
C5_OutsideEveryZone ==
    (Evaluated /\ \A i \in 1..Len(GEOFENCE_ZONES) :
                     /\ DistanceTo(LastSample, i) # NaN
                     /\ DistanceTo(LastSample, i) > GEOFENCE_ZONES[i].radius * 10) =>
        /\ currentZone = null
        /\ lastEvents = <<>>
        /\ alertedZones = prevAlerted

\* the user was in a zone and the sample is outside every zone
C5_Witness_LeftZone ==
    /\ Evaluated
    /\ ValidCoordinates(LastSample)
    /\ Matches(LastSample) = {}
    /\ prevZone # null
    /\ currentZone = null

\* C6, as claimed: a sample with invalid coordinates leaves currentZone and
\* alertedZones as they were and raises nothing.
C6_Original_InvalidSampleRejected ==
    (Evaluated /\ ~ValidCoordinates(LastSample)) =>
        /\ currentZone = prevZone
        /\ alertedZones = prevAlerted
        /\ lastEvents = <<>>

\* C7: a sample delivered a second time right after the first gives the same
\* currentZone, leaves alertedZones as it was and raises no alert.
C7_RedeliveryIsHarmless ==
    (Evaluated /\ prevSample = lastSample) =>
        /\ currentZone = prevZone
        /\ alertedZones = prevAlerted
        /\ lastEvents = <<>>

\* the second of two identical samples in a zone
C7_Witness_SecondIdenticalSample ==
    /\ Evaluated
    /\ prevSample = lastSample
    /\ lastOp = "watch"
    /\ currentZone = "Westminster"
    /\ alerts = <<"Westminster">>

\* the positions of the zones whose centre is at most their radius from s
Inside(s) ==
    {i \in 1..Len(GEOFENCE_ZONES) :
        DistanceTo(s, i) # NaN /\ DistanceTo(s, i) <= GEOFENCE_ZONES[i].radius * 10}

\* C16: after an evaluation the user is in a zone exactly when the distance of
\* the sample to some zone centre is less than or equal to that zone's radius,
\* and then to the centre of currentZone it is; so a sample at a distance equal
\* to the radius and a sample at the centre are in a zone.
C16_InclusiveDistanceTest ==
    Evaluated =>
        /\ (currentZone # null) <=> (Inside(LastSample) # {})
        /\ currentZone # null =>
              \E i \in Inside(LastSample) : GEOFENCE_ZONES[i].name = currentZone
        /\ \A i \in 1..Len(GEOFENCE_ZONES) :
              (DistanceTo(LastSample, i) = GEOFENCE_ZONES[i].radius * 10
                 \/ DistanceTo(LastSample, i) = 0) => currentZone # null

\* a sample whose distance to a zone centre is the zone's radius, in that zone
C16_Witness_OnTheBoundary ==
    /\ Evaluated
    /\ \E i \in 1..Len(GEOFENCE_ZONES) :
          /\ DistanceTo(LastSample, i) = GEOFENCE_ZONES[i].radius * 10
          /\ currentZone = GEOFENCE_ZONES[i].name
          /\ lastEvents = <<currentZone>>

\* the sample has two finite coordinates
Finite(s) == s.latitude # NaN /\ s.longitude # NaN

\* the distances between the samples, from each to each
betweenSamples ==
    [s \in Samples |->
        [t \in Samples |-> getDistance(s.latitude, s.longitude, t.latitude, t.longitude)]]

\* the distance of the centre of the zone at each position to each sample
fromCentre ==
    [s \in Samples |->
        [i \in 1..Len(GEOFENCE_ZONES) |->
            getDistance(GEOFENCE_ZONES[i].center[2], GEOFENCE_ZONES[i].center[1],
                        s.latitude, s.longitude)]]

\* C17: the distance from a sample with finite coordinates to a zone centre or
\* to the sample before it is the distance the other way round, and the distance
\* from the sample to itself is 0.
C17_SymmetricZeroOnSame ==
    (Evaluated /\ Finite(LastSample)) =>
        /\ betweenSamples[LastSample][LastSample] = 0
        /\ \A i \in 1..Len(GEOFENCE_ZONES) :
              DistanceTo(LastSample, i) = fromCentre[LastSample][i]
        /\ (prevSample # <<>> /\ Finite(prevSample[1])) =>
              betweenSamples[LastSample][prevSample[1]]
                 = betweenSamples[prevSample[1]][LastSample]

\* two samples a computed distance apart, and a zone centre a computed distance
\* from the last of them
C17_Witness_TwoPointsApart ==
    /\ Evaluated
    /\ prevSample # <<>>
    /\ Finite(LastSample) /\ Finite(prevSample[1])
    /\ betweenSamples[LastSample][prevSample[1]] \notin {0, FarDistance}
    /\ betweenSamples[LastSample][prevSample[1]] = betweenSamples[prevSample[1]][LastSample]
    /\ \E i \in 1..Len(GEOFENCE_ZONES) :
          /\ DistanceTo(LastSample, i) \notin {0, FarDistance}
          /\ DistanceTo(LastSample, i) = fromCentre[LastSample][i]

\* C20: the one-shot callback and the watch callback run one at a time in any
\* order; whatever the order, no zone name is alerted twice in the session, and
\* after each of the two callbacks currentZone is the zone of the sample that
\* callback delivered: the first configured zone that holds it, or none.
C20_CallbacksInterleaved ==
    /\ \A z \in ZoneNames : Occurrences(alerts, z) <= 1
    /\ Len(alerts) = Cardinality(alertedZones)
    /\ lastOp \in {"initial", "watch"} =>
          currentZone = (IF Matches(LastSample) = {} THEN null
                         ELSE GEOFENCE_ZONES[FirstMatch(LastSample)].name)

\* the one-shot callback arrives after the watch has alerted a zone, with a
\* sample in that zone, in which the user no longer was: no second alert
C20_Witness_OneShotAfterWatch ==
    /\ lastOp = "initial"
    /\ prevSample # <<>>
    /\ prevZone = null
    /\ currentZone # null
    /\ currentZone \in prevAlerted
    /\ lastEvents = <<>>
    /\ Occurrences(alerts, currentZone) = 1

(***************************************************************************)
(* Properties of the report modal (specification AppSpec)                  *)
(***************************************************************************)
\* the high-risk zones of README.md:14-26, in the order they are listed
DocumentedZones ==
    << "Westminster", "Camden Town", "Shoreditch", "Oxford Street", "King's Cross",
       "Brixton", "Stratford", "Elephant & Castle", "Tottenham Court Road",
       "Liverpool Street" >>

\* C21: in every state of a session the zone list is the configured one, as no
\* handler changes it: it has the 10 zones the README documents, every radius is
\* above 0 and no two zones have the same name.
C21_ZoneSetWellFormed ==
    /\ zones = GEOFENCE_ZONES
    /\ Len(zones) = 10
    /\ [i \in 1..Len(zones) |-> zones[i].name] = DocumentedZones
    /\ \A i \in 1..Len(zones) : zones[i].radius > 0
    /\ \A i, j \in 1..Len(zones) : i # j => zones[i].name # zones[j].name

\* the zone list after the loop of checkGeofences has run over it with and
\* without a match, and a report was written
C21_Witness_AfterLoopsAndReport ==
    /\ alerts = <<"Westminster">>
    /\ currentZone = null
    /\ lastReport # <<>>
    /\ lastOp = "watch"
    /\ Len(zones) = 10

\* C22: once a position sample has been evaluated, a zone the user is shown in
\* (currentZone other than null) is always a zone that has alerted.
C22_CurrentZoneHasAlerted ==
    (lastSample # <<>> /\ currentZone # null) => currentZone \in alertedZones

\* the user is back in a zone they had left, with its banner dismissed long ago
\* and no new alert on this sample
C22_Witness_BackInQuietZone ==
    /\ lastOp = "watch"
    /\ currentZone = "Westminster"
    /\ prevZone = null
    /\ "Westminster" \in prevAlerted
    /\ lastEvents = <<>>
    /\ ~showAlert

\* C23: alertedZones only grows: no step removes a name from it; it holds names
\* of configured zones only; every alert of the session is for a different name
\* of the set, so that there are never more alerts than configured zones.
C23_AlertedZonesOnlyGrows ==
    /\ [][alertedZones \subseteq alertedZones']_vars
    /\ [](alertedZones \subseteq ZoneNames)
    /\ [](Len(alerts) = Cardinality(alertedZones))
    /\ [](Len(alerts) <= Len(GEOFENCE_ZONES))

\* three zones have alerted and the last banner was dismissed
C23_Witness_ThreeAlertedDismissed ==
    /\ Cardinality(alertedZones) = 3
    /\ Len(alerts) = 3
    /\ lastOp = "dismiss"

\* the alert overlay is on screen: the render of App.tsx:466 behind the early
\* return of the permission prompt at 448
AlertOverlayShown == locationPermission # "prompt" /\ showAlert

\* C24: a shown banner names a zone of alertedZones, the one alerted last; a step
\* that puts up a banner or changes the zone it names does so for a zone that
\* had not alerted before, so that no zone has a banner a second time; Dismiss
\* hides the banner and leaves alertedZones and the zone named as they were.
C24_BannerOncePerZone ==
    /\ [](AlertOverlayShown =>
            /\ alertZone \in alertedZones
            /\ alerts # <<>>
            /\ alertZone = alerts[Len(alerts)])
    /\ [][(showAlert' /\ (~showAlert \/ alertZone' # alertZone)) =>
                (alertZone' \notin alertedZones /\ alertZone' \in alertedZones')]_vars
    /\ [][lastOp' = "dismiss" =>
                (showAlert /\ ~showAlert' /\ alertedZones' = alertedZones
                    /\ alertZone' = alertZone /\ currentZone' = currentZone)]_vars

\* the Oxford Street banner replaced or followed the Westminster one and was
\* dismissed; the user left and is back in Oxford Street with no banner
C24_Witness_DismissedStaysHidden ==
    /\ alerts = <<"Westminster", "Oxford Street">>
    /\ alertZone = "Oxford Street"
    /\ ~showAlert
    /\ currentZone = "Oxford Street"
    /\ prevZone = null
    /\ lastOp = "watch"

\* a write of the report modal of App.tsx settles in this step
ReportSettles == pendingReport # <<>> /\ pendingReport' = <<>>

\* The report modal of App.tsx alone: submitting is true exactly while an addDoc
\* is pending; when the write resolves the text is cleared and the modal closed,
\* when it rejects both stay as they are; no write starts while one is pending.
App_SubmittingFollowsWrite ==
    /\ [](submitting <=> pendingReport # <<>>)
    /\ [][(ReportSettles /\ lastOp' = "written") =>
                (~submitting' /\ reportText' = EmptyText /\ ~showReportModal'
                    /\ lastReport' = pendingReport)]_vars
    /\ [][(ReportSettles /\ lastOp' = "rejected") =>
                (~submitting' /\ reportText' = reportText
                    /\ showReportModal' = showReportModal /\ lastReport' = lastReport)]_vars
    /\ [][ReportSettles => lastOp' \in {"written", "rejected"}]_vars
    /\ [][(pendingReport' # pendingReport /\ pendingReport' # <<>>) =>
                (pendingReport = <<>> /\ ~submitting /\ submitting')]_vars

\* C25, as stated, for the incident form of page.tsx: while a write to the store
\* is pending the form on screen has its submitting flag set, the flag is clear
\* when no write is pending, and no second write is started while one is
\* pending (there is never more than one write in flight).
C25_Original_OneWriteAtATime ==
    /\ (pendingIncidents # <<>> /\ showForm) => isSubmitting
    /\ pendingIncidents = <<>> => ~isSubmitting
    /\ Len(pendingIncidents) <= 1

\* C26: the loading flag of the page is set exactly while the fetch of the load
\* is pending; a load that fails sets the error message and leaves the crime
\* list, the statistics and the markers as they were; a load that succeeds
\* replaces list and statistics in one step, with no error message; the total of
\* the statistics is the length of the displayed list in every state.
C26_LoadSettlesConsistently ==
    /\ [](crimeDataLoading <=> loadPc = "pending")
    /\ [](policeStats.total = Len(policeCrimes))
    /\ [](policeStats = policeStatsOf(policeCrimes))
    /\ [](loadPc = "failed" <=> crimeDataError # null)
    /\ [][(loadPc = "pending" /\ loadPc' = "failed") =>
                /\ crimeDataError' \in FetchErrors
                /\ policeCrimes' = policeCrimes
                /\ policeStats' = policeStats
                /\ policeMarkers' = policeMarkers]_vars
    /\ [][(loadPc = "pending" /\ loadPc' = "loaded") =>
                /\ policeCrimes' = fetchCrimeData(rawData)
                /\ policeStats'.total = Len(rawData)
                /\ crimeDataError' = null]_vars

\* the load of a response of three records failed: the message is shown, the
\* flag is clear, list and statistics are the empty ones of the mount, and the
\* incidents of the store are displayed all the same
C26_Witness_FailedLoadKeepsDisplay ==
    /\ loadPc = "failed"
    /\ Len(rawData) = 3
    /\ crimeDataError = "Invalid response from Police API. Please try again later."
    /\ ~crimeDataLoading
    /\ policeCrimes = <<>>
    /\ policeStats.total = 0
    /\ incidents # <<>>

(***************************************************************************)
(* Properties of the report modal, continued                               *)
(***************************************************************************)
\* the documents handed to addDoc: the one not settled yet and the last one written
Submitted ==
    {pendingReport[k] : k \in 1..Len(pendingReport)}
        \cup {lastReport[k] : k \in 1..Len(lastReport)}

\* C18: every report handed to the store was submitted with a known location,
\* which is its place, and its description is the trimmed text: not empty, at
\* most 200 characters, no white space at its ends. Without a location, and
\* while the text is blank, nothing is handed to the store.
C18_OnlyValidReportsSubmitted ==
    /\ \A doc \in Submitted :
          /\ userLocation # <<>>
          /\ \E s \in AppSamples :
                doc.latitude = s.latitude /\ doc.longitude = s.longitude
          /\ doc.description.body > 0
          /\ doc.description.spaces = 0
          /\ Length(doc.description) <= MaxReportLength
    /\ userLocation = <<>> => Submitted = {}
    /\ (lastOp = "submit") =>
          /\ pendingReport # <<>> /\ submitting
          /\ pendingReport[1].description.body = reportText.body
          /\ reportText.body > 0

\* a report written from a text with white space at its ends: the document
\* holds the trimmed text, the modal is closed and the text is cleared
C18_Witness_PaddedTextWritten ==
    /\ lastOp = "written"
    /\ lastReport # <<>>
    /\ lastReport[1].description = [spaces |-> 0, body |-> 5]
    /\ reportText = EmptyText
    /\ ~showReportModal
    /\ ~submitting

\* C19: a session starts with currentZone none and alertedZones empty, and
\* every step that changes one of them is a position callback, the one-shot or
\* the watch: dismissing the alert, opening, closing, typing and submitting a
\* report, the settling of its write and the permission handlers change neither.
C19_OnlyPositionsChangeGeofence ==
    /\ currentZone = null /\ alertedZones = {}
    /\ [][(currentZone' # currentZone \/ alertedZones' # alertedZones) =>
             \E s \in AppSamples : InitialPosition(s) \/ WatchPosition(s)]_vars

\* a report was written and the alert dismissed while the user is in a zone
\* that has alerted
C19_Witness_ReportWrittenInZone ==
    /\ lastOp = "written"
    /\ lastReport # <<>>
    /\ ~showAlert
    /\ currentZone = "Westminster"
    /\ alertedZones = {"Westminster"}

(***************************************************************************)
(* Properties of the load of the crime data in App.tsx (AppFairSpec)       *)
(***************************************************************************)
\* C15, as claimed: with an upstream that returns no records (rawData is empty)
\* the count of police reports stays 0 and the loading phase completes: once
\* the user has enabled location tracking and the app with its map container is
\* on screen, loading becomes false in the end.
C15_Original_EmptyBatchLoadCompletes ==
    /\ [](rawData = <<>> => crimeCount = 0)
    /\ (rawData = <<>> /\ locationPermission = "granted") ~> (loading = FALSE)

(***************************************************************************)
(* Properties of the crime feed (specification FeedSpec)                   *)
(***************************************************************************)
\* the ids of the list of CrimeData
IdsOf(list) == {list[i].id : i \in 1..Len(list)}

\* the positions of list that hold the first occurrence of their id
FirstOccurrences(list) ==
    {i \in 1..Len(list) : \A j \in 1..(i - 1) : list[j].id # list[i].id}

\* the raw records of rawData whose two coordinates parse as numbers
Parsable(data) ==
    {i \in 1..Len(data) : /\ parseFloat(data[i].latitude) # NaN
                          /\ parseFloat(data[i].longitude) # NaN}

\* the categories and the types the statistics count
CountedCategories == {"theft-from-the-person", "robbery", "other-theft"}

CountedTypes == {"theft", "suspicious", "safe"}

\* C8, as claimed: the crime list handed to the display holds one entry for
\* each id of the response, the first record with that id, and no two entries
\* of it share an id.
C8_Original_DisplayedIdsUnique ==
    loadPc = "loaded" =>
        /\ \A i, j \in 1..Len(policeCrimes) :
              i # j => policeCrimes[i].id # policeCrimes[j].id
        /\ IdsOf(policeCrimes) = IdsOf(fetchCrimeData(rawData))
        /\ Len(policeCrimes) = Cardinality(FirstOccurrences(fetchCrimeData(rawData)))

\* C9, as claimed: a record whose latitude or longitude does not parse is not
\* in the crime list, and every other record of the response is.
C9_Original_UnparsedRecordsDropped ==
    loadPc = "loaded" =>
        /\ \A i \in 1..Len(policeCrimes) :
              policeCrimes[i].lat # NaN /\ policeCrimes[i].lng # NaN
        /\ \A i \in Parsable(rawData) :
              \E k \in 1..Len(policeCrimes) : policeCrimes[k] = toCrimeData(rawData[i])

\* the position in list of the first record with this id
FirstIndex(list, id) ==
    CHOOSE i \in 1..Len(list) : list[i].id = id /\ \A j \in 1..(i - 1) : list[j].id # id

\* C13: the list fetchCrimeDataForArea returns holds, for each id of the
\* transformed response, the first record with that id, and any two of its
\* records stand in the order of these first occurrences in the response.
C13_FirstSeenOrderKept ==
    areaCrimes # <<>> =>
        LET out   == areaCrimes[1]
            input == fetchCrimeData(rawData)
        IN /\ IdsOf(out) = IdsOf(input)
           /\ \A a \in 1..Len(out) : out[a] = input[FirstIndex(input, out[a].id)]
           /\ \A a, b \in 1..Len(out) :
                 a < b => FirstIndex(input, out[a].id) < FirstIndex(input, out[b].id)

\* a response whose third record repeats the id of the first, with another
\* record between them: the two kept records are in the order of the response
C13_Witness_DuplicateAfterAnother ==
    /\ areaCrimes # <<>>
    /\ Len(rawData) = 3
    /\ crimeId(rawData[1]) = crimeId(rawData[3])
    /\ crimeId(rawData[1]) # crimeId(rawData[2])
    /\ Len(areaCrimes[1]) = 2
    /\ areaCrimes[1][1].id = crimeId(rawData[1])
    /\ areaCrimes[1][2].id = crimeId(rawData[2])

\* C14: the loop of fetchCrimeDataForArea run on the list it returned gives
\* that list again: the same records in the same order, none removed.
C14_DedupIdempotent ==
    areaCrimes # <<>> => dedupe(areaCrimes[1], 1, {}, <<>>) = areaCrimes[1]

\* a returned list that is not empty and from which a duplicate was removed
C14_Witness_DuplicateRemoved ==
    /\ areaCrimes # <<>>
    /\ areaCrimes[1] # <<>>
    /\ Len(areaCrimes[1]) < Len(rawData)
    /\ dedupe(areaCrimes[1], 1, {}, <<>>) = areaCrimes[1]

\* C10, as claimed: the total of each statistics value is the length of the
\* list it was computed from, and its counts per category sum to that total.
C10_Original_CountsSumToTotal ==
    /\ policeStats.total = Len(policeCrimes)
    /\ policeStats.theftFromPerson + policeStats.robbery + policeStats.otherTheft
          = policeStats.total
    /\ stats.total = Len(incidents)
    /\ stats.theft + stats.suspicious + stats.safe = stats.total

\* C10, amended: the total of each statistics value is the length of the list it
\* was computed from, and its counts per category sum to the number of records
\* of that list whose category is one of the counted ones: at most the total,
\* and the total when the list holds no other category.
C10_TotalIsLengthCountsAreCounted ==
    /\ policeStats.total = Len(policeCrimes)
    /\ policeStats.theftFromPerson + policeStats.robbery + policeStats.otherTheft
          = Cardinality({i \in 1..Len(policeCrimes) :
                            policeCrimes[i].category \in CountedCategories})
    /\ policeStats.theftFromPerson
          = Cardinality({i \in 1..Len(policeCrimes) :
                            policeCrimes[i].category = "theft-from-the-person"})
    /\ stats.total = Len(incidents)
    /\ stats.theft + stats.suspicious + stats.safe
          = Cardinality({i \in 1..Len(incidents) : incidents[i].type \in CountedTypes})

\* statistics of a list that holds a counted and an uncounted category
C10_Witness_UncountedCategory ==
    /\ loadPc = "loaded"
    /\ \E i, j \in 1..Len(policeCrimes) :
          /\ policeCrimes[i].category \in CountedCategories
          /\ policeCrimes[j].category \notin CountedCategories
    /\ policeStats.total = Len(policeCrimes)
    /\ policeStats.theftFromPerson + policeStats.robbery + policeStats.otherTheft
          < policeStats.total
    /\ incidents # <<>>

(***************************************************************************)
(* Properties of the police markers and of the ids (specification MapSpec) *)
(***************************************************************************)
\* C11, as claimed: while the police data is shown, every crime of the list has
\* its marker, and a crime whose category is in neither table of policeApi.ts
\* has its category as the label of its popup and the colour #999999.
C11_Original_UnknownCategoryPassesThrough ==
    (loadPc = "loaded" /\ showPoliceData) =>
        /\ Len(policeMarkers) = Len(policeCrimes)
        /\ \A i \in 1..Len(policeMarkers) :
              LET category == policeCrimes[i].category
              IN (category \notin DOMAIN CRIME_CATEGORY_MAPPING
                    /\ category \notin DOMAIN CRIME_CATEGORY_COLORS) =>
                     /\ policeMarkers[i].categoryName = category
                     /\ policeMarkers[i].color = "#999999"

\* the record has a persistent identifier or a numeric id
HasIdentifier(crime) == crime.persistent_id # <<>> \/ "id" \in DOMAIN crime

\* the persistent identifier of the record, else its numeric id as a string
SourceId(crime) ==
    IF crime.persistent_id # <<>> THEN crime.persistent_id ELSE NumberToString(crime.id)

\* what the synthetic id of a record is computed from (the period is not modelled)
SyntheticKey(crime) == <<crime.category, crime.latitude, crime.longitude>>

\* ids is the list of ids given to the records of data, one for each: a record
\* with an identifier has its SourceId, and two records without any have the
\* same id exactly when they agree on the SyntheticKey
IdsAsClaimed(ids, data) ==
    /\ Len(ids) = Len(data)
    /\ \A i \in 1..Len(ids) : HasIdentifier(data[i]) => ids[i] = SourceId(data[i])
    /\ \A i, j \in 1..Len(ids) :
          (~HasIdentifier(data[i]) /\ ~HasIdentifier(data[j])) =>
              ((ids[i] = ids[j]) <=> (SyntheticKey(data[i]) = SyntheticKey(data[j])))

\* C12, as claimed: both transforms of a response give each record the id
\* that is its persistent identifier when it has one, else its numeric id as a
\* string, else a synthetic id computed from its category and location, the
\* same for two records exactly when these agree.
C12_Original_IdFromIdentifiers ==
    /\ loadPc = "loaded" =>
           IdsAsClaimed([i \in 1..Len(policeCrimes) |-> policeCrimes[i].id], rawData)
    /\ (theftCrimes # <<>> /\ theftCrimes[1].ok) =>
           IdsAsClaimed([i \in 1..Len(theftCrimes[1].crimes) |-> theftCrimes[1].crimes[i].id],
                        rawData)

====
